---- MODULE Spec2Model ----
(***************************************************************************)
(* scramTrimmer: the per-read trimming decision (trimRead) and the batch   *)
(* pipeline (ProcessReadsFast) in its two architectures:                   *)
(*   "stream" - workers send survivors on a buffered channel, one writer   *)
(*              goroutine drains it (src/unnamed/part_000, lines 419-651)  *)
(*   "buffer" - workers append survivors to a slice under a mutex, the     *)
(*              main goroutine writes it after wg.Wait (lines 1-417).      *)
(*                                                                         *)
(* Strings are sequences of one-character strings.  Go indexes from 0,     *)
(* TLA+ sequences from 1: s[a:b] is SubSeq(s, a + 1, b).                   *)
(* Error probabilities are fixed-point numbers in thousandths              *)
(* (1.0 = 1000, 0.1 = 100): the quality alphabet holds the codes 33, 43,   *)
(* 53 only, whose probabilities 1, 0.1, 0.01 are exact at that scale.  The *)
(* mean is kept as the pair (sum, count) so that 0/0, Go's NaN, is a value *)
(* of the model and compares as NaN does.                                  *)
(***************************************************************************)
EXTENDS Integers, Sequences, FiniteSets, Bags, TLC

VARIABLES
    \* ---- the trimRead harness (specification SpecTrim) ----
    tRead,        \* the read handed to trimRead
    tArgs,        \* adapter, minLen, trim5, trim3, min5Match, maxError
    tResult,      \* what trimRead returned (or that it panicked)
    tDone,        \* trimRead has been called
    \* ---- the meanError harness (specification SpecQual) ----
    qIn,          \* the quality string handed to meanError
    qOut,         \* what phred33ToError and meanError returned for it
    \* ---- the pipeline (specification Spec) ----
    arch,         \* "stream" or "buffer": which ProcessReadsFast runs
    args,         \* the trim parameters of the run
    batchSize,    \* records per batch
    input,        \* the decompressed stream, a sequence of lines
    pos,          \* lines the scanner has consumed
    pc,           \* the main goroutine: scan, wait, close, join, write, returned
    ret,          \* what ProcessReadsFast returned: "none", "nil", "error"
    closed,       \* the deferred gw.Close / outFile.Close have run
    crashed,      \* a goroutine panicked: the process is gone
    reads,        \* the batch being filled
    workers,      \* one entry per processBatch goroutine started
    wg,           \* the WaitGroup counter
    resultsChan,  \* the buffered channel's content (stream)
    chanClosed,   \* close(resultsChan) has run
    mutex,        \* 0, or the worker holding the mutex (buffer)
    trimmedReads, \* the shared slice of survivors (buffer)
    wpc,          \* the writer goroutine: range, done ("none" in buffer)
    sink,         \* reads handed to the bufio writer, in order
    text,         \* the characters handed to writer.WriteString, in order
    sinkErr,      \* a write or flush met an error: the stream lacks part of sink
    flushed,      \* writer.Flush has been called
    totalReads, totalTrimmedReads,
    adapterMissingCount, tooShortCount, lowQualityCount

tvars == <<tRead, tArgs, tResult, tDone, qIn, qOut>>

pvars == <<arch, args, batchSize, input, pos, pc, ret, closed, crashed, reads,
           workers, wg, resultsChan, chanClosed, mutex, trimmedReads, wpc,
           sink, text, sinkErr, flushed, totalReads, totalTrimmedReads,
           adapterMissingCount, tooShortCount, lowQualityCount>>

vars == <<tvars, pvars>>

----------------------------------------------------------------------------
(* Bounds of the model *)

MaxSeqLen == 3       \* longest sequence handed to trimRead in SpecTrim
MaxRecords == 2      \* most records (well-formed or not) in an input stream
MaxBatchSize == 2    \* batchSize ranges over 1..MaxBatchSize (10000 in the code)
ChanCap == 1         \* capacity of resultsChan (1000 in the code)

----------------------------------------------------------------------------
(* Strings *)

Bases == {"A", "T"}
QualChars == {"!", "+", "5"}

\* the byte value of the characters the model uses
Ord == [c \in {"!", "+", "5", "@", "A", "T"} |->
          CASE c = "!" -> 33 [] c = "+" -> 43 [] c = "5" -> 53
            [] c = "@" -> 64 [] c = "A" -> 65 [] c = "T" -> 84]

SeqsUpTo(S, n) == UNION {[1..k -> S] : k \in 0..n}

\* strings.Index(s, substr): the leftmost 0-based index of substr in s, -1
\* when it does not occur; the empty substr occurs at 0.
OccursAt(s, substr, i) ==
    /\ i + Len(substr) <= Len(s)
    /\ \A k \in 1..Len(substr) : s[i + k] = substr[k]

\* mutant of Index: strings.LastIndex, the rightmost occurrence
IndexLast(s, substr) ==
    LET hits == {i \in 0..Len(s) : OccursAt(s, substr, i)}
    IN  IF hits = {} THEN -1
        ELSE CHOOSE i \in hits : \A j \in hits : i >= j

Index(s, substr) ==
    LET hits == {i \in 0..Len(s) : OccursAt(s, substr, i)}
    IN  IF hits = {} THEN -1
        ELSE CHOOSE i \in hits : \A j \in hits : i <= j

\* Go's s[lo:hi] panics unless 0 <= lo <= hi <= len(s)
SliceInRange(s, lo, hi) == 0 <= lo /\ lo <= hi /\ hi <= Len(s)

Slice(s, lo, hi) == SubSeq(s, lo + 1, hi)

----------------------------------------------------------------------------
(* Quality arithmetic *)

RECURSIVE Pow10(_)
Pow10(n) == IF n <= 0 THEN 1 ELSE 10 * Pow10(n - 1)

\* mutant of phred33ToError: the offset 33 is not subtracted
phred33ToErrorNoOffset(qual) == Pow10(3 - (qual \div 10))

\* math.Pow(10, -(qual-33)/10), in thousandths
phred33ToError(qual) == Pow10(3 - ((qual - 33) \div 10))

RECURSIVE SumErrors(_)
SumErrors(quality) ==
    IF quality = <<>> THEN 0
    ELSE phred33ToError(Ord[Head(quality)]) + SumErrors(Tail(quality))

\* total / float64(len(quality)) as the fraction num/den; 0/0 is NaN
meanError(quality) == [num |-> SumErrors(quality), den |-> Len(quality)]

\* the float comparison m >= maxError: false whenever m is NaN
MeanGE(m, maxError) ==
    IF m.den = 0 THEN m.num > 0
    ELSE m.num >= maxError * m.den

----------------------------------------------------------------------------
(* trimRead *)

ErrAdapterMissing == "adapter missing"
ErrTooShort == "too short"
ErrLowQuality == "low quality"
Rejections == {ErrAdapterMissing, ErrTooShort, ErrLowQuality}

\* Go's (*FastqRead, error): each is a sequence of length 0 (nil) or 1
Returned(read) == [read |-> <<read>>, err |-> <<>>, panicked |-> FALSE]
Rejected(msg) == [read |-> <<>>, err |-> <<msg>>, panicked |-> FALSE]
Panicked == [read |-> <<>>, err |-> <<>>, panicked |-> TRUE]

\* adapter[:min5Match] panics unless 0 <= min5Match <= len(adapter)
PrefixInRange(adapter, min5Match) == 0 <= min5Match /\ min5Match <= Len(adapter)

adapterIndexOf(read, adapter, min5Match) ==
    Index(read.Sequence, SubSeq(adapter, 1, min5Match))

\* mutant of windowTooShort: the 5' flank is added, not subtracted
windowTooShortSum(start, end, minLen) == end + start < minLen

\* mutant of windowTooShort: the comparison is off by one
windowTooShortOffByOne(start, end, minLen) == end - start < minLen - 1

\* mutant of windowTooShort: the 5' flank is left out of the length
windowTooShortNoStart(start, end, minLen) == end < minLen

\* if end-start < minLen
windowTooShort(start, end, minLen) == end - start < minLen

\* if meanError([]byte(trimmedQuality)) >= maxError
qualityTooLow(trimmedQuality, maxError) ==
    MeanGE(meanError(trimmedQuality), maxError)

\* mutant of trimRead: the quality of the window is tested before its length
trimReadQualityFirst(read, adapter, minLen, trim5, trim3, min5Match, maxError) ==
    IF ~PrefixInRange(adapter, min5Match) THEN Panicked
    ELSE
    LET adapterIndex == adapterIndexOf(read, adapter, min5Match)
        start == trim5
        end == adapterIndex - trim3
    IN  IF adapterIndex = -1 THEN Rejected(ErrAdapterMissing)
        ELSE IF ~SliceInRange(read.Sequence, start, end) THEN Panicked
        ELSE IF ~SliceInRange(read.Quality, start, end) THEN Panicked
        ELSE IF qualityTooLow(Slice(read.Quality, start, end), maxError)
             THEN Rejected(ErrLowQuality)
        ELSE IF windowTooShort(start, end, minLen) THEN Rejected(ErrTooShort)
        ELSE Returned([Header   |-> read.Header,
                       Sequence |-> Slice(read.Sequence, start, end),
                       Quality  |-> Slice(read.Quality, start, end)])

trimRead(read, adapter, minLen, trim5, trim3, min5Match, maxError) ==
    IF ~PrefixInRange(adapter, min5Match) THEN Panicked
    ELSE
    LET adapterIndex == adapterIndexOf(read, adapter, min5Match)
        start == trim5
        end == adapterIndex - trim3
    IN  IF adapterIndex = -1 THEN Rejected(ErrAdapterMissing)
        ELSE IF windowTooShort(start, end, minLen) THEN Rejected(ErrTooShort)
        ELSE IF ~SliceInRange(read.Sequence, start, end) THEN Panicked
        ELSE IF ~SliceInRange(read.Quality, start, end) THEN Panicked
        ELSE IF qualityTooLow(Slice(read.Quality, start, end), maxError)
             THEN Rejected(ErrLowQuality)
        ELSE Returned([Header   |-> read.Header,
                       Sequence |-> Slice(read.Sequence, start, end),
                       Quality  |-> Slice(read.Quality, start, end)])

trimReadA(read, a) ==
    trimRead(read, a.adapter, a.minLen, a.trim5, a.trim3, a.min5Match, a.maxError)

----------------------------------------------------------------------------
(* The decompressed stream and the Record Source *)

Plus == <<"+">>
At == <<"@">>

Rec(seq, qual) == <<At, seq, Plus, qual>>

\* well-formed records.  Under the first parameter set of PipelineArgs they
\* are: two survivors, adapter missing, too short, low quality; under the
\* second (minLen = 0) the fourth one survives too, with an empty window.
GoodRecords ==
    { Rec(<<"A", "T", "A">>, <<"5", "5", "5">>),
      Rec(<<"T", "T", "A">>, <<"5", "+", "5">>),
      Rec(<<"A", "A">>, <<"5", "5">>),
      Rec(<<"T", "A">>, <<"5", "5">>),
      Rec(<<"A", "T", "A">>, <<"!", "5", "5">>) }

\* records with one structural defect: no '@', no '+', lengths differ
BadRecords ==
    { <<<<"A">>, <<"A">>, Plus, <<"5">>>>,
      <<At, <<"A">>, <<"A">>, <<"5">>>>,
      <<At, <<"A", "T">>, Plus, <<"5">>>> }

\* the lines of a stream that ends inside its last record
Truncated ==
    { <<At>>,
      <<At, <<"A">>>>,
      <<At, <<"A">>, Plus>>,
      <<At, <<>>, Plus>> }

RECURSIVE Flatten(_)
Flatten(ss) == IF ss = <<>> THEN <<>> ELSE Head(ss) \o Flatten(Tail(ss))

\* what may follow the well-formed records of a stream: nothing, a defective
\* record and whatever comes after it, or a truncated record
Endings ==
    {<<>>} \cup Truncated
           \cup BadRecords
           \cup {b \o g : <<b, g>> \in BadRecords \X GoodRecords}

RecordsIn(ending) == (Len(ending) + 3) \div 4

Inputs ==
    { Flatten(p[1]) \o p[2] :
        p \in { q \in SeqsUpTo(GoodRecords, MaxRecords) \X Endings :
                  Len(q[1]) + RecordsIn(q[2]) <= MaxRecords } }

\* scanner.Text() of line k; "" once Scan has returned false
LineAt(lines, k) == IF k <= Len(lines) THEN lines[k] ELSE <<>>

HasPrefixAt(header) == header # <<>> /\ header[1] = "@"

\* mutant of RecordOK: the third line is not compared with "+"
RecordOKNoPlus(lines, k) ==
    /\ HasPrefixAt(LineAt(lines, k + 1))
    /\ Len(LineAt(lines, k + 2)) = Len(LineAt(lines, k + 4))

\* one iteration of the scan loop from line k: the structural checks
RecordOK(lines, k) ==
    /\ HasPrefixAt(LineAt(lines, k + 1))
    /\ LineAt(lines, k + 3) = Plus
    /\ Len(LineAt(lines, k + 2)) = Len(LineAt(lines, k + 4))

RecordAt(lines, k) ==
    [Header   |-> LineAt(lines, k + 1),
     Sequence |-> LineAt(lines, k + 2),
     Quality  |-> LineAt(lines, k + 4)]

Min(a, b) == IF a <= b THEN a ELSE b

----------------------------------------------------------------------------
(* The Output Sink *)

NL == "\n"

\* mutant of recordText: the quality line is written before the separator
recordTextSwapped(read) ==
    read.Header \o <<NL>> \o read.Sequence \o <<NL>>
      \o read.Quality \o <<NL>> \o Plus \o <<NL>>

\* the four WriteString calls for one read
recordText(read) ==
    read.Header \o <<NL>> \o read.Sequence \o <<NL>>
      \o Plus \o <<NL>> \o read.Quality \o <<NL>>

\* writeTrimmedReads(trimmedReads, writer) with no write error: the text
RECURSIVE writeTrimmedReads(_)
writeTrimmedReads(rs) ==
    IF rs = <<>> THEN <<>>
    ELSE recordText(Head(rs)) \o writeTrimmedReads(Tail(rs))

----------------------------------------------------------------------------
(* The pipeline *)

PipelineArgs ==
    { [adapter |-> <<"T", "A">>, minLen |-> 1, trim5 |-> 0, trim3 |-> 0,
       min5Match |-> 2, maxError |-> 100],
      [adapter |-> <<"T", "A">>, minLen |-> 0, trim5 |-> 0, trim3 |-> 0,
       min5Match |-> 2, maxError |-> 100],
      [adapter |-> <<"T", "A">>, minLen |-> 1, trim5 |-> -1, trim3 |-> 0,
       min5Match |-> 2, maxError |-> 100] }

NoRead == [Header |-> <<>>, Sequence |-> <<>>, Quality |-> <<>>]

NoMean == [done |-> FALSE, errors |-> <<>>, mean |-> [num |-> 0, den |-> 0]]

QualIdle == qIn = <<>> /\ qOut = NoMean

TrimIdle ==
    /\ QualIdle
    /\ tRead = NoRead
    /\ tArgs = CHOOSE a \in PipelineArgs : a.minLen = 1 /\ a.trim5 = 0
    /\ tResult = [read |-> <<>>, err |-> <<>>, panicked |-> FALSE]
    /\ tDone = FALSE

Init ==
    /\ TrimIdle
    /\ arch \in {"stream", "buffer"}
    /\ args \in PipelineArgs
    /\ batchSize \in 1..MaxBatchSize
    /\ input \in Inputs
    /\ pos = 0
    /\ pc = "scan"
    /\ ret = "none"
    /\ closed = FALSE
    /\ crashed = FALSE
    /\ reads = <<>>
    /\ workers = <<>>
    /\ wg = 0
    /\ resultsChan = <<>>
    /\ chanClosed = FALSE
    /\ mutex = 0
    /\ trimmedReads = <<>>
    /\ wpc = IF arch = "stream" THEN "range" ELSE "none"
    /\ sink = <<>>
    /\ text = <<>>
    /\ sinkErr = FALSE
    /\ flushed = FALSE
    /\ totalReads = 0
    /\ totalTrimmedReads = 0
    /\ adapterMissingCount = 0
    /\ tooShortCount = 0
    /\ lowQualityCount = 0

counters == <<adapterMissingCount, tooShortCount, lowQualityCount>>
config == <<arch, args, batchSize, input>>
outvars == <<sink, text, sinkErr, flushed>>

\* seen: the value of *trimmedReads the worker's append has loaded
NewWorker(batch) == [batch |-> batch, i |-> 0, st |-> "run", seen |-> <<>>]

\* wg.Add(1); go processBatch(reads, ...)
Dispatched(ws, batch) == Append(ws, NewWorker(batch))

\* mutant of BatchFull: the batch is dispatched one read late
BatchFullLate(rs) == Len(rs) = batchSize + 1

\* if len(reads) == batchSize
BatchFull(rs) == Len(rs) = batchSize

\* the scan loop's body for one record; a structural error returns at once
\* (and the deferred closes run)
ScanRecord ==
    /\ ~crashed
    /\ pc = "scan"
    /\ pos < Len(input)
    /\ IF ~RecordOK(input, pos)
       THEN /\ pc' = "returned"
            /\ ret' = "error"
            /\ closed' = TRUE
            /\ UNCHANGED <<pos, reads, totalReads, workers, wg>>
       ELSE /\ pos' = Min(pos + 4, Len(input))
            /\ totalReads' = totalReads + 1
            /\ LET rs == Append(reads, RecordAt(input, pos))
               IN  IF BatchFull(rs)
                   THEN /\ wg' = wg + 1
                        /\ workers' = Dispatched(workers, rs)
                        /\ reads' = <<>>
                   ELSE /\ reads' = rs
                        /\ UNCHANGED <<wg, workers>>
            /\ UNCHANGED <<pc, ret, closed>>
    /\ UNCHANGED <<config, crashed, resultsChan, chanClosed, mutex, trimmedReads,
                   wpc, outvars, totalTrimmedReads, counters, tvars>>

\* mutant of ScanEnd: the reads left over after the loop are not dispatched
ScanEndNoRemainder ==
    /\ ~crashed
    /\ pc = "scan"
    /\ pos >= Len(input)
    /\ pc' = "wait"
    /\ UNCHANGED <<config, pos, ret, closed, crashed, reads, workers, wg,
                   resultsChan, chanClosed, mutex, trimmedReads, wpc, outvars,
                   totalReads, totalTrimmedReads, counters, tvars>>

\* mutant of ScanEnd: the last worker is started without wg.Add(1)
ScanEndNoAdd ==
    /\ ~crashed
    /\ pc = "scan"
    /\ pos >= Len(input)
    /\ IF Len(reads) > 0
       THEN /\ workers' = Dispatched(workers, reads)
            /\ UNCHANGED wg
       ELSE UNCHANGED <<wg, workers>>
    /\ pc' = "wait"
    /\ UNCHANGED <<config, pos, ret, closed, crashed, reads, resultsChan,
                   chanClosed, mutex, trimmedReads, wpc, outvars, totalReads,
                   totalTrimmedReads, counters, tvars>>

\* mutant of ScanEnd: a worker is started on the remaining reads even when
\* there are none
ScanEndAlways ==
    /\ ~crashed
    /\ pc = "scan"
    /\ pos >= Len(input)
    /\ wg' = wg + 1
    /\ workers' = Dispatched(workers, reads)
    /\ pc' = "wait"
    /\ UNCHANGED <<config, pos, ret, closed, crashed, reads, resultsChan,
                   chanClosed, mutex, trimmedReads, wpc, outvars, totalReads,
                   totalTrimmedReads, counters, tvars>>

\* the scanner is exhausted: the remaining reads, if any, are one more batch
ScanEnd ==
    /\ ~crashed
    /\ pc = "scan"
    /\ pos >= Len(input)
    /\ IF Len(reads) > 0
       THEN /\ wg' = wg + 1
            /\ workers' = Dispatched(workers, reads)
       ELSE UNCHANGED <<wg, workers>>
    /\ pc' = "wait"
    /\ UNCHANGED <<config, pos, ret, closed, crashed, reads, resultsChan,
                   chanClosed, mutex, trimmedReads, wpc, outvars, totalReads,
                   totalTrimmedReads, counters, tvars>>

\* mutant of WgWait: the main task goes on without waiting for the workers
WgWaitEarly ==
    /\ ~crashed
    /\ pc = "wait"
    /\ IF arch = "stream"
       THEN /\ pc' = "close"
            /\ UNCHANGED totalTrimmedReads
       ELSE /\ pc' = "write"
            /\ totalTrimmedReads' = Len(trimmedReads)
    /\ UNCHANGED <<config, pos, ret, closed, crashed, reads, workers, wg,
                   resultsChan, chanClosed, mutex, trimmedReads, wpc, outvars,
                   totalReads, counters, tvars>>

\* wg.Wait() returns; the buffer pipeline then sets totalTrimmedReads
WgWait ==
    /\ ~crashed
    /\ pc = "wait"
    /\ wg = 0
    /\ IF arch = "stream"
       THEN /\ pc' = "close"
            /\ UNCHANGED totalTrimmedReads
       ELSE /\ pc' = "write"
            /\ totalTrimmedReads' = Len(trimmedReads)
    /\ UNCHANGED <<config, pos, ret, closed, crashed, reads, workers, wg,
                   resultsChan, chanClosed, mutex, trimmedReads, wpc, outvars,
                   totalReads, counters, tvars>>

\* close(resultsChan)
CloseResults ==
    /\ ~crashed
    /\ pc = "close"
    /\ chanClosed' = TRUE
    /\ pc' = "join"
    /\ UNCHANGED <<config, pos, ret, closed, crashed, reads, workers, wg,
                   resultsChan, mutex, trimmedReads, wpc, outvars, totalReads,
                   totalTrimmedReads, counters, tvars>>

\* mutant of JoinWriter: the receive from doneChan is missing
JoinWriterNoWait ==
    /\ ~crashed
    /\ pc = "join"
    /\ pc' = "returned"
    /\ ret' = "nil"
    /\ closed' = TRUE
    /\ UNCHANGED <<config, pos, crashed, reads, workers, wg, resultsChan,
                   chanClosed, mutex, trimmedReads, wpc, outvars, totalReads,
                   totalTrimmedReads, counters, tvars>>

\* <-doneChan, the statistics are printed, return nil
JoinWriter ==
    /\ ~crashed
    /\ pc = "join"
    /\ wpc = "done"
    /\ pc' = "returned"
    /\ ret' = "nil"
    /\ closed' = TRUE
    /\ UNCHANGED <<config, pos, crashed, reads, workers, wg, resultsChan,
                   chanClosed, mutex, trimmedReads, wpc, outvars, totalReads,
                   totalTrimmedReads, counters, tvars>>

\* buffer: writeTrimmedReads meets a write error at read k + 1 and returns it
WriteFail ==
    /\ ~crashed
    /\ pc = "write"
    /\ \E k \in 0..(Len(trimmedReads) - 1) :
          /\ sink' = SubSeq(trimmedReads, 1, k + 1)
          /\ text' = writeTrimmedReads(SubSeq(trimmedReads, 1, k + 1))
    /\ sinkErr' = TRUE
    /\ pc' = "returned"
    /\ ret' = "error"
    /\ closed' = TRUE
    /\ UNCHANGED <<config, pos, crashed, reads, workers, wg, resultsChan,
                   chanClosed, mutex, trimmedReads, wpc, flushed, totalReads,
                   totalTrimmedReads, counters, tvars>>

\* buffer: writeTrimmedReads returns nil; writer.Flush() and gw.Close(), whose
\* errors are not looked at; the statistics are printed; return nil
WriteAll ==
    /\ ~crashed
    /\ pc = "write"
    /\ sink' = trimmedReads
    /\ text' = writeTrimmedReads(trimmedReads)
    /\ \E flushOK \in BOOLEAN : sinkErr' = ~flushOK
    /\ flushed' = TRUE
    /\ pc' = "returned"
    /\ ret' = "nil"
    /\ closed' = TRUE
    /\ UNCHANGED <<config, pos, crashed, reads, workers, wg, resultsChan,
                   chanClosed, mutex, trimmedReads, wpc, totalReads,
                   totalTrimmedReads, counters, tvars>>

----------------------------------------------------------------------------
(* processBatch *)

Running(w) == workers[w].st = "run" /\ workers[w].i < Len(workers[w].batch)

\* trimRead on the worker's next read
Trimmed(w) == trimReadA(workers[w].batch[workers[w].i + 1], args)

Advance(w) ==
    [workers EXCEPT ![w].i = @ + 1, ![w].st = "run", ![w].seen = <<>>]

\* mutant of Counted: every case of the switch adds one
CountedAll(msg, label) == 1

\* mutant of Counted: the "too short" case of the switch is misspelt
CountedTypo(msg, label) == IF msg = label /\ label # ErrTooShort THEN 1 ELSE 0

\* the switch on err.Error(): what is added to the counter of case `label`
Counted(msg, label) == IF msg = label THEN 1 ELSE 0

\* err != nil: one atomic.AddInt64, continue
WorkerReject(w) ==
    /\ ~crashed
    /\ Running(w)
    /\ ~Trimmed(w).panicked
    /\ Trimmed(w).err # <<>>
    /\ adapterMissingCount' =
          adapterMissingCount + Counted(Trimmed(w).err[1], ErrAdapterMissing)
    /\ tooShortCount' = tooShortCount + Counted(Trimmed(w).err[1], ErrTooShort)
    /\ lowQualityCount' = lowQualityCount + Counted(Trimmed(w).err[1], ErrLowQuality)
    /\ workers' = Advance(w)
    /\ UNCHANGED <<config, pos, pc, ret, closed, crashed, reads, wg, resultsChan,
                   chanClosed, mutex, trimmedReads, wpc, outvars, totalReads,
                   totalTrimmedReads, tvars>>

\* trimRead panics (a slice out of range): the process dies
WorkerPanic(w) ==
    /\ ~crashed
    /\ Running(w)
    /\ Trimmed(w).panicked
    /\ crashed' = TRUE
    /\ UNCHANGED <<config, pos, pc, ret, closed, reads, workers, wg, resultsChan,
                   chanClosed, mutex, trimmedReads, wpc, outvars, totalReads,
                   totalTrimmedReads, counters, tvars>>

Survives(w) == Running(w) /\ ~Trimmed(w).panicked /\ Trimmed(w).read # <<>>

\* mutant of WorkerSend: a non-blocking send that drops the read when the
\* channel is full
WorkerSendOrDrop(w) ==
    /\ ~crashed
    /\ arch = "stream"
    /\ Survives(w)
    /\ ~chanClosed
    /\ resultsChan' = IF Len(resultsChan) < ChanCap
                      THEN Append(resultsChan, Trimmed(w).read[1])
                      ELSE resultsChan
    /\ workers' = Advance(w)
    /\ UNCHANGED <<config, pos, pc, ret, closed, crashed, reads, wg, chanClosed,
                   mutex, trimmedReads, wpc, outvars, totalReads,
                   totalTrimmedReads, counters, tvars>>

\* mutant of WorkerSend: the read is sent as it came in, not as trimmed
WorkerSendRaw(w) ==
    /\ ~crashed
    /\ arch = "stream"
    /\ Survives(w)
    /\ ~chanClosed
    /\ Len(resultsChan) < ChanCap
    /\ resultsChan' = Append(resultsChan, workers[w].batch[workers[w].i + 1])
    /\ workers' = Advance(w)
    /\ UNCHANGED <<config, pos, pc, ret, closed, crashed, reads, wg, chanClosed,
                   mutex, trimmedReads, wpc, outvars, totalReads,
                   totalTrimmedReads, counters, tvars>>

\* mutant of WorkerSend: the send never waits for room in the channel
WorkerSendUnbounded(w) ==
    /\ ~crashed
    /\ arch = "stream"
    /\ Survives(w)
    /\ ~chanClosed
    /\ resultsChan' = Append(resultsChan, Trimmed(w).read[1])
    /\ workers' = Advance(w)
    /\ UNCHANGED <<config, pos, pc, ret, closed, crashed, reads, wg, chanClosed,
                   mutex, trimmedReads, wpc, outvars, totalReads,
                   totalTrimmedReads, counters, tvars>>

\* stream: resultsChan <- trimmedRead, which blocks while the channel is full
\* and panics on a closed channel
WorkerSend(w) ==
    /\ ~crashed
    /\ arch = "stream"
    /\ Survives(w)
    /\ IF chanClosed
       THEN /\ crashed' = TRUE
            /\ UNCHANGED <<resultsChan, workers>>
       ELSE /\ Len(resultsChan) < ChanCap
            /\ resultsChan' = Append(resultsChan, Trimmed(w).read[1])
            /\ workers' = Advance(w)
            /\ UNCHANGED crashed
    /\ UNCHANGED <<config, pos, pc, ret, closed, reads, wg, chanClosed, mutex,
                   trimmedReads, wpc, outvars, totalReads, totalTrimmedReads,
                   counters, tvars>>

\* mutant of WorkerLock: the append is not guarded by the mutex
WorkerLockNoMutex(w) ==
    /\ ~crashed
    /\ arch = "buffer"
    /\ Survives(w)
    /\ mutex' = w
    /\ workers' = [workers EXCEPT ![w].st = "lock", ![w].seen = trimmedReads]
    /\ UNCHANGED <<config, pos, pc, ret, closed, crashed, reads, wg, resultsChan,
                   chanClosed, trimmedReads, wpc, outvars, totalReads,
                   totalTrimmedReads, counters, tvars>>

\* buffer: mutex.Lock(), and append's load of *trimmedReads
WorkerLock(w) ==
    /\ ~crashed
    /\ arch = "buffer"
    /\ Survives(w)
    /\ mutex = 0
    /\ mutex' = w
    /\ workers' = [workers EXCEPT ![w].st = "lock", ![w].seen = trimmedReads]
    /\ UNCHANGED <<config, pos, pc, ret, closed, crashed, reads, wg, resultsChan,
                   chanClosed, trimmedReads, wpc, outvars, totalReads,
                   totalTrimmedReads, counters, tvars>>

\* mutant of WorkerAppend: the read is put in front of the collection
WorkerAppendFront(w) ==
    /\ ~crashed
    /\ workers[w].st = "lock"
    /\ trimmedReads' = <<Trimmed(w).read[1]>> \o workers[w].seen
    /\ mutex' = 0
    /\ workers' = Advance(w)
    /\ UNCHANGED <<config, pos, pc, ret, closed, crashed, reads, wg, resultsChan,
                   chanClosed, wpc, outvars, totalReads, totalTrimmedReads,
                   counters, tvars>>

\* buffer: the store of *trimmedReads = append(*trimmedReads, trimmedRead),
\* which is the loaded value with the read appended; mutex.Unlock()
WorkerAppend(w) ==
    /\ ~crashed
    /\ workers[w].st = "lock"
    /\ trimmedReads' = Append(workers[w].seen, Trimmed(w).read[1])
    /\ mutex' = 0
    /\ workers' = Advance(w)
    /\ UNCHANGED <<config, pos, pc, ret, closed, crashed, reads, wg, resultsChan,
                   chanClosed, wpc, outvars, totalReads, totalTrimmedReads,
                   counters, tvars>>

\* the loop is over: the deferred wg.Done()
WorkerDone(w) ==
    /\ ~crashed
    /\ workers[w].st = "run"
    /\ workers[w].i = Len(workers[w].batch)
    /\ wg' = wg - 1
    /\ workers' = [workers EXCEPT ![w].st = "done"]
    /\ UNCHANGED <<config, pos, pc, ret, closed, crashed, reads, resultsChan,
                   chanClosed, mutex, trimmedReads, wpc, outvars, totalReads,
                   totalTrimmedReads, counters, tvars>>

----------------------------------------------------------------------------
(* writeResults *)

\* one iteration of: for read := range resultsChan.  The four WriteString
\* results are dropped; the bufio writer keeps its first error.
WriterWrite ==
    /\ ~crashed
    /\ wpc = "range"
    /\ resultsChan # <<>>
    /\ sink' = Append(sink, Head(resultsChan))
    /\ text' = text \o recordText(Head(resultsChan))
    /\ resultsChan' = Tail(resultsChan)
    /\ \E ok \in BOOLEAN : sinkErr' = (sinkErr \/ ~ok)
    /\ totalTrimmedReads' = totalTrimmedReads + 1
    /\ UNCHANGED <<config, pos, pc, ret, closed, crashed, reads, workers, wg,
                   chanClosed, mutex, trimmedReads, wpc, flushed, totalReads,
                   counters, tvars>>

\* the channel is closed and empty: writer.Flush(); close(doneChan)
WriterFinish ==
    /\ ~crashed
    /\ wpc = "range"
    /\ resultsChan = <<>>
    /\ chanClosed
    /\ \E ok \in BOOLEAN : sinkErr' = (sinkErr \/ ~ok)
    /\ flushed' = TRUE
    /\ wpc' = "done"
    /\ UNCHANGED <<config, pos, pc, ret, closed, crashed, reads, workers, wg,
                   resultsChan, chanClosed, mutex, trimmedReads, sink, text,
                   totalReads, totalTrimmedReads, counters, tvars>>

Next ==
    \/ ScanRecord
    \/ ScanEnd
    \/ WgWait
    \/ CloseResults
    \/ JoinWriter
    \/ WriteFail
    \/ WriteAll
    \/ \E w \in 1..Len(workers) : WorkerReject(w)
    \/ \E w \in 1..Len(workers) : WorkerPanic(w)
    \/ \E w \in 1..Len(workers) : WorkerSend(w)
    \/ \E w \in 1..Len(workers) : WorkerLock(w)
    \/ \E w \in 1..Len(workers) : WorkerAppend(w)
    \/ \E w \in 1..Len(workers) : WorkerDone(w)
    \/ WriterWrite
    \/ WriterFinish

Spec == Init /\ [][Next]_vars

\* the Go scheduler runs every goroutine that can run: while some step of
\* the main task, a worker or the writer is possible, one is taken
SpecLive == Init /\ [][Next]_vars /\ WF_vars(Next)

----------------------------------------------------------------------------
(* SpecTrim: trimRead on every valid read and parameter set within bounds *)

ValidReads ==
    {[Header |-> <<"@">>, Sequence |-> s, Quality |-> q] :
        <<s, q>> \in {p \in SeqsUpTo(Bases, MaxSeqLen) \X SeqsUpTo(QualChars, MaxSeqLen) :
                        Len(p[1]) = Len(p[2])}}

Adapters == {<<"T", "A">>, <<"T", "T">>}

TrimArgs ==
    [adapter   : Adapters,
     minLen    : {-1, 0, 1, 2},
     trim5     : {-1, 0, 1},
     trim3     : {-1, 0, 1},
     min5Match : {0, 1, 2, 3},
     maxError  : {100, 1000}]

NoResult == [read |-> <<>>, err |-> <<>>, panicked |-> FALSE]

\* the pipeline does not run under SpecTrim
PipelineIdle ==
    /\ arch = "stream"
    /\ args = CHOOSE a \in PipelineArgs : a.minLen = 1 /\ a.trim5 = 0
    /\ batchSize = 1
    /\ input = <<>>
    /\ pos = 0
    /\ pc = "idle"
    /\ ret = "none"
    /\ closed = FALSE
    /\ crashed = FALSE
    /\ reads = <<>>
    /\ workers = <<>>
    /\ wg = 0
    /\ resultsChan = <<>>
    /\ chanClosed = FALSE
    /\ mutex = 0
    /\ trimmedReads = <<>>
    /\ wpc = "none"
    /\ sink = <<>>
    /\ text = <<>>
    /\ sinkErr = FALSE
    /\ flushed = FALSE
    /\ totalReads = 0
    /\ totalTrimmedReads = 0
    /\ adapterMissingCount = 0
    /\ tooShortCount = 0
    /\ lowQualityCount = 0

TrimInit ==
    /\ tRead \in ValidReads
    /\ tArgs \in TrimArgs
    /\ tResult = NoResult
    /\ tDone = FALSE
    /\ QualIdle
    /\ PipelineIdle

\* mutant of CallTrimRead: the read is trimmed in place
CallTrimReadInPlace ==
    /\ ~tDone
    /\ tResult' = trimReadA(tRead, tArgs)
    /\ tRead' = IF trimReadA(tRead, tArgs).read # <<>>
                THEN trimReadA(tRead, tArgs).read[1] ELSE tRead
    /\ tDone' = TRUE
    /\ UNCHANGED <<tArgs, qIn, qOut, pvars>>

\* result := trimRead(read, ...): nothing but the result is assigned
CallTrimRead ==
    /\ ~tDone
    /\ tResult' = trimReadA(tRead, tArgs)
    /\ tDone' = TRUE
    /\ UNCHANGED <<tRead, tArgs, qIn, qOut, pvars>>

SpecTrim == TrimInit /\ [][CallTrimRead]_vars

\* SpecQual: phred33ToError and meanError on every quality string within
\* bounds, the empty one included
QualityStrings == SeqsUpTo(QualChars, MaxSeqLen + 1)

QualInit ==
    /\ qIn \in QualityStrings
    /\ qOut = NoMean
    /\ tRead = NoRead
    /\ tArgs = CHOOSE a \in PipelineArgs : a.minLen = 1 /\ a.trim5 = 0
    /\ tResult = NoResult
    /\ tDone = FALSE
    /\ PipelineIdle

\* phred33ToError(q) for every q of the string, and meanError(string)
CallMeanError ==
    /\ ~qOut.done
    /\ qOut' = [done   |-> TRUE,
                errors |-> [k \in 1..Len(qIn) |-> phred33ToError(Ord[qIn[k]])],
                mean   |-> meanError(qIn)]
    /\ UNCHANGED <<qIn, tRead, tArgs, tResult, tDone, pvars>>

SpecQual == QualInit /\ [][CallMeanError]_vars

\* trimRead called on its own, or a run of either pipeline
SpecAll == (Init \/ TrimInit) /\ [][Next \/ CallTrimRead]_vars

----------------------------------------------------------------------------
(* Reference values: the run of one worker over the whole input, in order *)

\* the records the Record Source accepts before the stream ends or a
\* structural check fails
RECURSIVE Accepted(_, _)
Accepted(lines, k) ==
    IF k >= Len(lines) \/ ~RecordOK(lines, k) THEN <<>>
    ELSE <<RecordAt(lines, k)>> \o Accepted(lines, Min(k + 4, Len(lines)))

\* the trimmed reads of a sequence of reads, in order
RECURSIVE SurvivorsOf(_, _)
SurvivorsOf(rs, a) ==
    IF rs = <<>> THEN <<>>
    ELSE (IF trimReadA(Head(rs), a).read # <<>>
          THEN trimReadA(Head(rs), a).read ELSE <<>>) \o SurvivorsOf(Tail(rs), a)

RejectedAs(rs, a, msg) ==
    Cardinality({k \in 1..Len(rs) : trimReadA(rs[k], a).err = <<msg>>})

RECURSIVE SeqBag(_)
SeqBag(s) == IF s = <<>> THEN EmptyBag ELSE SetToBag({Head(s)}) (+) SeqBag(Tail(s))

\* the survivors worker w has forwarded so far
ForwardedBy(w) == SurvivorsOf(SubSeq(workers[w].batch, 1, workers[w].i), args)

RECURSIVE ForwardedUpTo(_)
ForwardedUpTo(n) == IF n = 0 THEN <<>> ELSE ForwardedUpTo(n - 1) \o ForwardedBy(n)

Forwarded == ForwardedUpTo(Len(workers))

LiveWorkers == Cardinality({w \in 1..Len(workers) : workers[w].st # "done"})

AllWorkersDone == \A w \in 1..Len(workers) : workers[w].st = "done"

----------------------------------------------------------------------------
(* Claims about the pipeline (specification Spec) *)

\* C1: when ProcessReadsFast has returned nil, in either architecture and
\* whatever the interleaving was, total = trimmed + adapterMissing +
\* tooShort + lowQuality.
C1_StatsBalanced ==
    ret = "nil" =>
        totalReads = totalTrimmedReads + adapterMissingCount
                       + tooShortCount + lowQualityCount

\* a completed streaming run of several workers with a survivor and a rejection
C1_Witness ==
    /\ ret = "nil"
    /\ arch = "stream"
    /\ Len(workers) >= 2
    /\ totalTrimmedReads >= 1
    /\ adapterMissingCount + tooShortCount + lowQualityCount >= 1

\* C5: the number of processBatch goroutines alive at once is bounded by a
\* constant that does not grow with the input.  A constant K is exceeded by
\* an input of K + 1 batches; for the inputs of the model, of at most
\* MaxRecords batches, the claim therefore asks for a bound below MaxRecords.
C5_LiveWorkersBounded == LiveWorkers < MaxRecords

\* C6: a run in which a write or flush of the output failed does not return
\* nil.
C6_WriteFailureAborts == ret = "nil" => ~sinkErr

\* the scan loop returned a structural error
ScanFailed == ret = "error" /\ pos < Len(input) /\ ~RecordOK(input, pos)

\* C7: once ProcessReadsFast has returned a structural error, no worker
\* trims another record, no counter is incremented, no survivor is forwarded
\* and nothing more is handed to the writer.
C7_NothingAfterAbort ==
    [][ScanFailed =>
          /\ workers' = workers
          /\ counters' = counters
          /\ resultsChan' = resultsChan
          /\ trimmedReads' = trimmedReads
          /\ sink' = sink
          /\ totalTrimmedReads' = totalTrimmedReads]_vars

\* C8: in the streaming pipeline a nil return finds every worker finished,
\* the channel closed and empty, the writer done and flushed, and every
\* survivor the workers forwarded handed to the writer's output.
C8_NilAfterDrain ==
    (ret = "nil" /\ arch = "stream") =>
        /\ AllWorkersDone
        /\ wg = 0
        /\ chanClosed
        /\ resultsChan = <<>>
        /\ wpc = "done"
        /\ flushed
        /\ Len(sink) = Len(Forwarded)

\* a streaming run returned nil after two workers forwarded survivors
C8_Witness ==
    /\ ret = "nil"
    /\ arch = "stream"
    /\ Len(workers) >= 2
    /\ \A w \in 1..Len(workers) : ForwardedBy(w) # <<>>

\* C9: a completed run ends with the statistics and the bag of written reads
\* of the one-worker run over the same input with the same parameters,
\* whatever the architecture, the batch size and the interleaving.
C9_SameAsSequential ==
    ret = "nil" =>
        LET rs == Accepted(input, 0)
        IN  /\ totalReads = Len(rs)
            /\ totalTrimmedReads = Len(SurvivorsOf(rs, args))
            /\ adapterMissingCount = RejectedAs(rs, args, ErrAdapterMissing)
            /\ tooShortCount = RejectedAs(rs, args, ErrTooShort)
            /\ lowQualityCount = RejectedAs(rs, args, ErrLowQuality)
            /\ SeqBag(sink) = SeqBag(SurvivorsOf(rs, args))

\* a completed run of one worker per record, with survivors and a rejection
C9_Witness ==
    /\ ret = "nil"
    /\ Len(workers) = MaxRecords
    /\ totalTrimmedReads >= 1
    /\ tooShortCount + adapterMissingCount + lowQualityCount >= 1

\* what is on its way from the workers to the output, and what arrived
Delivered ==
    IF arch = "stream" THEN sink \o resultsChan
    ELSE IF ret = "nil" THEN sink ELSE trimmedReads

\* C10: no survivor is lost, duplicated or altered between a worker and the
\* output: at every moment the reads written and those in the channel (or
\* the shared slice) are exactly the trimmed reads the workers forwarded, and
\* at a nil return the reads written are exactly the trimmed reads of the
\* input's records.
C10_SurvivorsConserved ==
    /\ SeqBag(Delivered) = SeqBag(Forwarded)
    /\ ret = "nil" => SeqBag(sink) = SeqBag(SurvivorsOf(Accepted(input, 0), args))

\* a completed run of two workers wrote the same survivor twice, once per
\* batch
C10_Witness ==
    /\ ret = "nil"
    /\ Len(workers) = 2
    /\ Len(sink) = 2
    /\ sink[1] = sink[2]

\* the batches handed to workers, one after the other
RECURSIVE BatchesUpTo(_)
BatchesUpTo(n) == IF n = 0 THEN <<>> ELSE BatchesUpTo(n - 1) \o workers[n].batch

\* the reads appended to the current batch and not handed to a worker
Pending == IF pc = "scan" \/ ScanFailed THEN reads ELSE <<>>

\* C11: the records the Record Source has produced so far are, in order and
\* each once, the reads of the batches handed to workers followed by the
\* reads of the batch being filled; each batch belongs to one worker, whose
\* index runs once over it; at a nil return every record of the input, those
\* of the final partial batch included, has been trimmed by its worker.
C11_EachRecordInOneBatch ==
    /\ BatchesUpTo(Len(workers)) \o Pending
          = SubSeq(Accepted(input, 0), 1, totalReads)
    /\ \A w \in 1..Len(workers) : workers[w].i <= Len(workers[w].batch)
    /\ ret = "nil" =>
          /\ totalReads = Len(Accepted(input, 0))
          /\ \A w \in 1..Len(workers) : workers[w].i = Len(workers[w].batch)

\* a completed run whose only batch is partial: one record, batch size two
C11_Witness ==
    /\ ret = "nil"
    /\ batchSize = 2
    /\ totalReads = 1
    /\ Len(workers) = 1
    /\ workers[1].i = 1

\* worker w has gone on to its next read in this step
AdvancedBy(w) == workers'[w].i = workers[w].i + 1

\* C12: a step in which a worker finishes a read that trimRead rejected adds
\* one to the counter of the rejection's category, leaves the other two alone,
\* forwards nothing and leaves the worker running on its next read; a step in
\* which it finishes a read that trimRead returned forwards that trimmed read
\* once and leaves the three counters alone; no other step moves a counter or
\* forwards a read.
C12_OneEffectPerRead ==
    [][/\ \A w \in 1..Len(workers) :
             AdvancedBy(w) =>
               IF Trimmed(w).err # <<>>
               THEN /\ adapterMissingCount' = adapterMissingCount
                         + (IF Trimmed(w).err[1] = ErrAdapterMissing THEN 1 ELSE 0)
                    /\ tooShortCount' = tooShortCount
                         + (IF Trimmed(w).err[1] = ErrTooShort THEN 1 ELSE 0)
                    /\ lowQualityCount' = lowQualityCount
                         + (IF Trimmed(w).err[1] = ErrLowQuality THEN 1 ELSE 0)
                    /\ resultsChan' = resultsChan
                    /\ trimmedReads' = trimmedReads
                    /\ workers'[w].st = "run"
               ELSE /\ counters' = counters
                    /\ Trimmed(w).read # <<>>
                    /\ IF arch = "stream"
                       THEN /\ resultsChan' = Append(resultsChan, Trimmed(w).read[1])
                            /\ trimmedReads' = trimmedReads
                       ELSE /\ trimmedReads' = Append(trimmedReads, Trimmed(w).read[1])
                            /\ resultsChan' = resultsChan
       /\ (\A w \in 1..Len(workers) : ~AdvancedBy(w)) =>
             /\ counters' = counters
             /\ trimmedReads' = trimmedReads
             /\ Len(resultsChan') <= Len(resultsChan)]_vars

\* a worker has gone through a batch of two: the first read was rejected as
\* too short and counted, the second was forwarded
C12_Witness ==
    \E w \in 1..Len(workers) :
      /\ Len(workers[w].batch) = 2
      /\ workers[w].i = 2
      /\ trimReadA(workers[w].batch[1], args).err = <<ErrTooShort>>
      /\ trimReadA(workers[w].batch[2], args).read # <<>>
      /\ counters = <<0, 1, 0>>
      /\ Len(Delivered) = 1

\* line n of the input, empty when the input has fewer lines
InputLine(n) == IF n \in 1..Len(input) THEN input[n] ELSE <<>>

\* the input taken four lines at a time
NumGroups == (Len(input) + 3) \div 4

\* group g breaks one of the three structural rules
GroupBad(g) ==
    \/ InputLine(4 * g - 3) = <<>>
    \/ InputLine(4 * g - 3)[1] # "@"
    \/ InputLine(4 * g - 1) # <<"+">>
    \/ Len(InputLine(4 * g - 2)) # Len(InputLine(4 * g))

BadGroups == {g \in 1..NumGroups : GroupBad(g)}

FirstBad == CHOOSE g \in BadGroups : \A h \in BadGroups : g <= h

GroupRead(g) ==
    [Header   |-> InputLine(4 * g - 3),
     Sequence |-> InputLine(4 * g - 2),
     Quality  |-> InputLine(4 * g)]

\* C18: the Record Source takes the input four lines at a time; the reads
\* counted and batched are always the first totalReads groups; when some
\* group has an identifier line not starting with '@', a third line other
\* than '+', or sequence and quality of different lengths, the scan never
\* goes past the first such group, that group and the later ones are never
\* batched or counted, and the run never gets to its joining phase: it
\* returns, and what it returns is an error.
C18_StructuralErrorStopsScan ==
    /\ pos = Min(4 * totalReads, Len(input))
    /\ BatchesUpTo(Len(workers)) \o Pending
          = [g \in 1..totalReads |-> GroupRead(g)]
    /\ BadGroups # {} =>
          /\ totalReads < FirstBad
          /\ pc \in {"scan", "returned"}
          /\ ret # "nil"
          /\ pc = "returned" =>
                /\ ret = "error"
                /\ totalReads = FirstBad - 1

\* the first record has no '+' line and a well-formed record follows it:
\* the run has returned an error and has counted and batched nothing
C18_Witness ==
    /\ Len(input) = 8
    /\ BadGroups = {1}
    /\ InputLine(3) # <<"+">>
    /\ ret = "error"
    /\ totalReads = 0
    /\ workers = <<>>

\* a step of worker w other than the send of a survivor
WorkerStepNoSend(w) ==
    \/ WorkerReject(w)
    \/ WorkerPanic(w)
    \/ WorkerDone(w)

\* worker w is at its send with the results queue full
BlockedOnFullQueue(w) == Survives(w) /\ Len(resultsChan) = ChanCap

\* the queue is within its capacity and the workers that cannot take a step
\* are those at a send with the queue full
QueueBoundedNow ==
    (arch = "stream" /\ ~crashed) =>
        /\ Len(resultsChan) <= ChanCap
        /\ \A w \in 1..Len(workers) :
              workers[w].st # "done" =>
                IF Survives(w)
                THEN /\ (~ENABLED WorkerSend(w)) <=> BlockedOnFullQueue(w)
                     /\ BlockedOnFullQueue(w) => ENABLED WriterWrite
                ELSE ENABLED WorkerStepNoSend(w)

\* C19: in the stream-while-writing pipeline the results queue never holds
\* more survivors than its capacity; a worker forwarding a survivor cannot
\* take its step exactly when the queue is full, and then the writer can
\* take a survivor out; a worker that has not finished and is not forwarding
\* a survivor can always take a step.
C19_QueueBounded == []QueueBoundedNow

\* the queue is full and a worker with a survivor to forward waits
C19_Witness ==
    /\ arch = "stream"
    /\ ~crashed
    /\ Len(resultsChan) = ChanCap
    /\ \E w \in 1..Len(workers) :
          BlockedOnFullQueue(w) /\ ~ENABLED WorkerSend(w)

\* the collection has been handed to writeTrimmedReads
HandedToWriter == pc = "write" \/ (pc = "returned" /\ ~ScanFailed)

\* C20: in the buffer-then-write pipeline a worker between the load and the
\* store of its append holds the mutex, and the collection it loaded is
\* still the collection (no other append came in between, so none is lost);
\* the collection is handed to writeTrimmedReads only when every worker has
\* finished, and holds one read per successful trim; a run that returns nil
\* has written as many reads as there were successful trims.
C20_AppendUnderMutex ==
    arch = "buffer" =>
        /\ \A w \in 1..Len(workers) :
              workers[w].st = "lock" =>
                /\ mutex = w
                /\ workers[w].seen = trimmedReads
        /\ HandedToWriter =>
              /\ AllWorkersDone
              /\ Len(trimmedReads) = Len(Forwarded)
        /\ ret = "nil" =>
              /\ Len(sink) = Len(Forwarded)
              /\ totalTrimmedReads = Len(Forwarded)

\* two workers have each appended a survivor and the run has written both
C20_Witness ==
    /\ arch = "buffer"
    /\ ret = "nil"
    /\ Len(workers) = 2
    /\ Len(ForwardedBy(1)) = 1
    /\ Len(ForwardedBy(2)) = 1
    /\ Len(sink) = 2

\* the five statistics
statistics == <<totalReads, totalTrimmedReads, counters>>

\* C21: the step that takes the statistics for printing (the step that
\* returns nil; in the buffer pipeline also the step after wg.Wait() that
\* sets the trimmed count) is taken with every worker finished and, in the
\* stream pipeline, with the writer finished; once the run has returned nil
\* no step changes any of the five statistics.
C21_StatisticsReadAfterJoin ==
    [][/\ ret' = "nil" =>
             /\ \A w \in 1..Len(workers') : workers'[w].st = "done"
             /\ arch = "stream" => wpc' = "done" /\ resultsChan' = <<>>
       /\ (arch = "buffer" /\ pc' = "write") =>
             /\ \A w \in 1..Len(workers') : workers'[w].st = "done"
             /\ totalTrimmedReads' = Len(trimmedReads')
       /\ (ret = "nil" \/ (arch = "buffer" /\ pc = "write")) =>
             statistics' = statistics]_vars

\* a completed run of the stream pipeline whose statistics show a total of
\* two, one survivor written and one rejection
C21_Witness ==
    /\ arch = "stream"
    /\ ret = "nil"
    /\ totalReads = 2
    /\ totalTrimmedReads = 1
    /\ adapterMissingCount + tooShortCount + lowQualityCount = 1
    /\ Len(workers) = 2

\* every worker has finished, the writer has terminated (the stream pipeline
\* has one) and ProcessReadsFast has returned nil
Completed ==
    /\ ret = "nil"
    /\ AllWorkersDone
    /\ arch = "stream" => wpc = "done"

\* a write or the flush has failed
IOFailure == sinkErr \/ (arch = "buffer" /\ ret = "error")

\* C22: on a structurally valid input every run in which no write fails
\* comes to the state where all workers have finished, the writer has
\* terminated and ProcessReadsFast has returned nil.
C22_RunCompletes == (BadGroups = {}) => <>(Completed \/ IOFailure)

\* the lines of a text: the characters between one newline and the next;
\* characters after the last newline are one more, unterminated, line
RECURSIVE LinesOf(_, _)
LinesOf(t, cur) ==
    IF t = <<>> THEN (IF cur = <<>> THEN <<>> ELSE <<cur>>)
    ELSE IF Head(t) = "\n" THEN <<cur>> \o LinesOf(Tail(t), <<>>)
    ELSE LinesOf(Tail(t), Append(cur, Head(t)))

\* identifier, sequence, '+', quality of each read of a list, in list order
RECURSIVE FourLinesEach(_)
FourLinesEach(rs) ==
    IF rs = <<>> THEN <<>>
    ELSE <<Head(rs).Header, Head(rs).Sequence, <<"+">>, Head(rs).Quality>>
           \o FourLinesEach(Tail(rs))

CeilDiv(n, b) == (n + b - 1) \div b

\* the scan loop has ended without a structural error
ScanCompleted == pc # "scan" /\ ~ScanFailed

\* C27: every batch handed to a worker holds exactly batchSize records,
\* except the last one of a completed scan, which holds between 1 and
\* batchSize; the batches hold the records in input order; while the scan
\* runs floor(total / batchSize) workers have been started, and after a scan
\* that went through the n records of the input, ceil(n / batchSize).
C27_WorkersPerBatch ==
    /\ \A w \in 1..Len(workers) :
          \/ Len(workers[w].batch) = batchSize
          \/ /\ w = Len(workers)
             /\ ScanCompleted
             /\ Len(workers[w].batch) \in 1..batchSize
    /\ BatchesUpTo(Len(workers)) =
          [g \in 1..Len(BatchesUpTo(Len(workers))) |-> GroupRead(g)]
    /\ ~ScanCompleted => Len(workers) = totalReads \div batchSize
    /\ ScanCompleted =>
          /\ totalReads = NumGroups
          /\ Len(workers) = CeilDiv(NumGroups, batchSize)

\* one record and batch size two: the scan has ended and one worker has
\* been started, on a batch of one
C27_Witness ==
    /\ pc = "wait"
    /\ batchSize = 2
    /\ NumGroups = 1
    /\ Len(workers) = 1
    /\ Len(workers[1].batch) = 1

\* C28: in the stream pipeline the WaitGroup counter is the number of
\* started workers that have not finished, a finished worker has gone
\* through its whole batch (Done comes after its last send), the results
\* queue is closed only past wg.Wait() with every worker finished, so no
\* worker is ever at a send with the queue closed, and a crash never comes
\* from a send on the closed queue (only from a panic of trimRead).
C28_NoSendAfterClose ==
    arch = "stream" =>
        /\ wg = LiveWorkers
        /\ \A w \in 1..Len(workers) :
              workers[w].st = "done" => workers[w].i = Len(workers[w].batch)
        /\ chanClosed =>
              /\ pc \in {"join", "returned"}
              /\ AllWorkersDone
        /\ \A w \in 1..Len(workers) : ~(chanClosed /\ Survives(w))
        /\ crashed =>
              \E w \in 1..Len(workers) : Running(w) /\ Trimmed(w).panicked

\* the queue has been closed after two workers had each sent a survivor
C28_Witness ==
    /\ arch = "stream"
    /\ chanClosed
    /\ Len(workers) = 2
    /\ Len(ForwardedBy(1)) = 1
    /\ Len(ForwardedBy(2)) = 1

\* C29: in the stream pipeline, once ProcessReadsFast has returned and its
\* deferred gw.Close() and outFile.Close() have run, the writer task writes
\* no read and does no flush.
C29_NoWriteAfterClose ==
    [][(arch = "stream" /\ closed) =>
          /\ sink' = sink
          /\ text' = text
          /\ flushed' = flushed]_vars

\* the survivors each worker has forwarded so far, in the order of its batch
ForwardedPerWorker == [w \in 1..Len(workers) |-> ForwardedBy(w)]

\* out is an interleaving of the sequences ss: every element of out is the
\* next element of one of them, and none of them has an element left over
RECURSIVE IsMerge(_, _)
IsMerge(ss, out) ==
    IF out = <<>> THEN \A w \in 1..Len(ss) : ss[w] = <<>>
    ELSE \E w \in 1..Len(ss) :
            /\ ss[w] # <<>>
            /\ Head(ss[w]) = Head(out)
            /\ IsMerge([ss EXCEPT ![w] = Tail(ss[w])], Tail(out))

\* the survivors in arrival order: written ones first, then those waiting
Arrived == IF arch = "stream" THEN sink \o resultsChan ELSE trimmedReads

EndsInsideRecord == Len(input) % 4 # 0

\* the records of the input that have all their four lines
WholeRecords == Len(input) \div 4

\* C32: on a stream that ends inside a record the incomplete record is
\* never counted and never in a batch, the run never gets past the scan
\* other than by returning, and what it returns is an error.
C32_TruncatedNeverAccepted ==
    EndsInsideRecord =>
        /\ totalReads <= WholeRecords
        /\ Len(BatchesUpTo(Len(workers))) + Len(reads) <= WholeRecords
        /\ pc \in {"scan", "returned"}
        /\ ret # "nil"

\* nothing is started, counted or written
NothingDone ==
    /\ workers = <<>>
    /\ wg = 0
    /\ statistics = <<0, 0, <<0, 0, 0>>>>
    /\ resultsChan = <<>>
    /\ trimmedReads = <<>>
    /\ sink = <<>>
    /\ text = <<>>
    /\ ~crashed
    /\ ret # "error"

\* the run has returned nil; in the stream pipeline the queue was closed
\* and the writer has terminated
ReturnedNil ==
    /\ ret = "nil"
    /\ arch = "stream" => (chanClosed /\ wpc = "done")

\* C33: on an input with zero records no worker is ever started, no record
\* is written and the five statistics stay 0; the run goes from the scan to
\* wg.Wait(), which does not wait, on to the close of the results queue with
\* nothing in it (stream) and to its return, which is nil, in the stream
\* pipeline with the queue closed and the writer terminated; before the
\* return some step of the run is always possible.
C33_EmptyInputReturnsNil ==
    (input = <<>>) =>
        /\ NothingDone
        /\ pc = "wait" => ENABLED WgWait
        /\ pc = "returned" => ReturnedNil
        /\ ret # "nil" => ENABLED Next

\* the stream pipeline has returned nil on the empty input
C33_Witness ==
    /\ input = <<>>
    /\ arch = "stream"
    /\ ReturnedNil
    /\ NothingDone
    /\ flushed

----------------------------------------------------------------------------
(* Claims about trimRead (specification SpecTrim) *)

AdapterFound ==
    /\ PrefixInRange(tArgs.adapter, tArgs.min5Match)
    /\ adapterIndexOf(tRead, tArgs.adapter, tArgs.min5Match) # -1

MatchIndex == adapterIndexOf(tRead, tArgs.adapter, tArgs.min5Match)

\* C2: on a valid read trimRead returns a read and no error, or no read and
\* one of the three rejections, and ends in no other way.
C2_ExactlyOneOutcome ==
    tDone =>
        /\ ~tResult.panicked
        /\ \/ tResult.read # <<>> /\ tResult.err = <<>>
           \/ tResult.read = <<>> /\ tResult.err # <<>>
                                  /\ tResult.err[1] \in Rejections

\* C3: with the adapter prefix found and trim5 < 0 or trim3 < 0, trimRead
\* returns TooShort.
C3_NegativeFlankTooShort ==
    (tDone /\ AdapterFound /\ (tArgs.trim5 < 0 \/ tArgs.trim3 < 0)) =>
        tResult = Rejected(ErrTooShort)

\* C4: with the adapter prefix found, flank lengths that are not negative
\* and an empty or inverted window (matchIndex - trim3 <= trim5), trimRead
\* returns TooShort whatever minLen is.
C4_EmptyWindowTooShort ==
    (/\ tDone
     /\ AdapterFound
     /\ tArgs.trim5 >= 0
     /\ tArgs.trim3 >= 0
     /\ MatchIndex - tArgs.trim3 <= tArgs.trim5) =>
        tResult = Rejected(ErrTooShort)

\* the first min5Match characters of the adapter, when there are that many
AdapterPrefix == SubSeq(tArgs.adapter, 1, tArgs.min5Match)

\* the 0-based positions of the sequence at which the adapter prefix stands
PrefixHits ==
    {i \in 0..Len(tRead.Sequence) :
        /\ i + tArgs.min5Match <= Len(tRead.Sequence)
        /\ SubSeq(tRead.Sequence, i + 1, i + tArgs.min5Match) = AdapterPrefix}

LeftmostHit == CHOOSE i \in PrefixHits : \A j \in PrefixHits : i <= j

\* the adapters of TrimArgs that start with the same min5Match characters
SamePrefixArgs ==
    {[tArgs EXCEPT !.adapter = ad] :
        ad \in {x \in Adapters : SubSeq(x, 1, tArgs.min5Match) = AdapterPrefix}}

\* C13: with 0 <= min5Match <= len(adapter), trimRead returns AdapterMissing
\* exactly when the first min5Match characters of the adapter stand nowhere
\* in the sequence; a read it returns is cut at the leftmost position where
\* they stand; and the result is the same for every adapter that starts with
\* the same min5Match characters.
C13_LeftmostPrefixMatch ==
    (tDone /\ PrefixInRange(tArgs.adapter, tArgs.min5Match)) =>
        /\ tResult = Rejected(ErrAdapterMissing) <=> PrefixHits = {}
        /\ tResult.read # <<>> =>
              tResult.read[1].Sequence =
                SubSeq(tRead.Sequence, tArgs.trim5 + 1, LeftmostHit - tArgs.trim3)
        /\ \A a \in SamePrefixArgs : trimReadA(tRead, a) = tResult

\* the prefix is shorter than the adapter and stands at two positions of the
\* sequence; the read returned is cut at the first of them
C13_Witness ==
    /\ tDone
    /\ 0 < tArgs.min5Match
    /\ tArgs.min5Match < Len(tArgs.adapter)
    /\ Cardinality(PrefixHits) >= 2
    /\ tResult.read # <<>>
    /\ Len(tResult.read[1].Sequence) = LeftmostHit
    /\ LeftmostHit > 0

\* C14: with the adapter prefix found at matchIndex and the window length
\* (matchIndex - trim3) - trim5 smaller than minLen, trimRead returns
\* TooShort, whichever of the two flanks makes the window short.
C14_ShortWindowTooShort ==
    (/\ tDone
     /\ AdapterFound
     /\ (MatchIndex - tArgs.trim3) - tArgs.trim5 < tArgs.minLen) =>
        tResult = Rejected(ErrTooShort)

\* both flanks are trimmed, and it is each of them that makes the window
\* too short: with one flank alone the window still has minLen characters
C14_Witness ==
    /\ tDone
    /\ AdapterFound
    /\ tArgs.trim5 = 1
    /\ tArgs.trim3 = 1
    /\ tArgs.minLen = 1
    /\ MatchIndex = 2
    /\ tResult = Rejected(ErrTooShort)

\* the read passed the adapter check and the length check, and the window
\* [trim5, matchIndex - trim3) lies within the read
PassedLengthCheck ==
    /\ AdapterFound
    /\ (MatchIndex - tArgs.trim3) - tArgs.trim5 >= tArgs.minLen
    /\ 0 <= tArgs.trim5
    /\ tArgs.trim5 <= MatchIndex - tArgs.trim3
    /\ MatchIndex - tArgs.trim3 <= Len(tRead.Quality)

\* the quality characters of the window
QualityWindow == SubSeq(tRead.Quality, tArgs.trim5 + 1, MatchIndex - tArgs.trim3)

\* the sum of the window's error probabilities, in thousandths
RECURSIVE WindowErrorSum(_)
WindowErrorSum(q) ==
    IF q = <<>> THEN 0
    ELSE Pow10(3 - ((Ord[Head(q)] - 33) \div 10)) + WindowErrorSum(Tail(q))

\* C15: for a read that passed the adapter and length checks, trimRead
\* returns LowQuality exactly when the mean error probability of the quality
\* window is at least maxError, and returns the read exactly when that mean
\* is strictly below maxError (a window with no base has no mean, and so no
\* mean below maxError).
C15_LowQualityIffMeanAtLeastMax ==
    (tDone /\ PassedLengthCheck) =>
        /\ tResult = Rejected(ErrLowQuality) <=>
              /\ Len(QualityWindow) > 0
              /\ WindowErrorSum(QualityWindow) >= tArgs.maxError * Len(QualityWindow)
        /\ tResult.read # <<>> <=>
              /\ Len(QualityWindow) > 0
              /\ WindowErrorSum(QualityWindow) < tArgs.maxError * Len(QualityWindow)

\* C16: a read trimRead returns has the identifier of the input, the
\* sequence and the quality characters of the window
\* [trim5, matchIndex - trim3) with matchIndex the leftmost position of the
\* adapter prefix, and that window ends at or before the adapter match.
C16_AcceptedIsWindowBeforeAdapter ==
    (tDone /\ tResult.read # <<>>) =>
        /\ tResult.read[1].Header = tRead.Header
        /\ tResult.read[1].Sequence =
              SubSeq(tRead.Sequence, tArgs.trim5 + 1, LeftmostHit - tArgs.trim3)
        /\ tResult.read[1].Quality =
              SubSeq(tRead.Quality, tArgs.trim5 + 1, LeftmostHit - tArgs.trim3)
        /\ tArgs.trim5 + Len(tResult.read[1].Sequence) <= LeftmostHit

\* the read has as many quality characters as bases, and at least minLen
SurvivorWellFormed(r, minLen) ==
    /\ Len(r.Sequence) = Len(r.Quality)
    /\ Len(r.Sequence) >= minLen

AllWellFormed(rs, minLen) ==
    \A k \in 1..Len(rs) : SurvivorWellFormed(rs[k], minLen)

\* C17: a read returned by trimRead, and every read on its way to the output
\* or written to it, has len(Sequence) = len(Quality) >= minLen.
C17_SurvivorWellFormed ==
    /\ (tDone /\ tResult.read # <<>>) =>
          SurvivorWellFormed(tResult.read[1], tArgs.minLen)
    /\ AllWellFormed(resultsChan, args.minLen)
    /\ AllWellFormed(trimmedReads, args.minLen)
    /\ AllWellFormed(sink, args.minLen)

\* a completed run that wrote two survivors, the first of exactly minLen
C17_Witness ==
    /\ ret = "nil"
    /\ args.minLen = 1
    /\ Len(sink) = 2
    /\ Len(sink[1].Sequence) = 1
    /\ Len(sink[2].Sequence) > 1 \/ arch = "buffer"

\* C24: a call of trimRead leaves the read it was given, its parameters and
\* every variable of the pipeline as they were, and its result is a function
\* of that read and those parameters alone; in a pipeline run no step
\* changes a read of any worker's batch, and the step in which one worker
\* has trimmed a read changes nothing of any other worker.
C24_TrimReadNoSideEffect ==
    [][/\ (~tDone /\ tDone') =>
             /\ tRead' = tRead
             /\ tArgs' = tArgs
             /\ pvars' = pvars
             /\ tResult' = trimReadA(tRead', tArgs')
       /\ args' = args
       /\ \A w \in 1..Len(workers) :
             /\ workers'[w].batch = workers[w].batch
             /\ AdvancedBy(w) =>
                   \A v \in 1..Len(workers) : v # w => workers'[v] = workers[v]]_vars

\* trimRead has returned a read shorter than the one it was given, which is
\* still whole
C24_Witness ==
    /\ tDone
    /\ tResult.read # <<>>
    /\ Len(tResult.read[1].Sequence) = 1
    /\ Len(tRead.Sequence) = 3
    /\ Len(tRead.Quality) = 3

\* length of the window [trim5, leftmost hit - trim3)
WindowLength == (LeftmostHit - tArgs.trim3) - tArgs.trim5

\* C26: with 0 <= min5Match <= len(adapter), a read without the adapter
\* prefix is AdapterMissing whatever its length and quality are; a read with
\* the prefix and a window shorter than minLen is TooShort whatever its
\* quality is; LowQuality is returned only to reads that have the prefix
\* and a window of at least minLen.
C26_CheckPriority ==
    (tDone /\ PrefixInRange(tArgs.adapter, tArgs.min5Match)) =>
        /\ PrefixHits = {} => tResult = Rejected(ErrAdapterMissing)
        /\ (PrefixHits # {} /\ WindowLength < tArgs.minLen) =>
              tResult = Rejected(ErrTooShort)
        /\ tResult = Rejected(ErrLowQuality) =>
              (PrefixHits # {} /\ WindowLength >= tArgs.minLen)

\* the read has the adapter prefix, its window of one base is shorter than
\* minLen and that base has error probability 1.0, above maxError: the read
\* is rejected as too short, not as of low quality
C26_Witness ==
    /\ tDone
    /\ PrefixHits # {}
    /\ tArgs.trim5 = 0
    /\ tArgs.trim3 = 0
    /\ LeftmostHit = 1
    /\ tArgs.minLen = 2
    /\ tRead.Quality[1] = "!"
    /\ tResult = Rejected(ErrTooShort)

\* the parameters are in the range the command line is meant for
ParametersInRange ==
    /\ PrefixInRange(tArgs.adapter, tArgs.min5Match)
    /\ tArgs.trim5 >= 0
    /\ tArgs.trim3 >= 0
    /\ tArgs.minLen >= 1

\* trimRead went past the adapter test and the length test
ReachedSlicing ==
    /\ tResult # Rejected(ErrAdapterMissing)
    /\ tResult # Rejected(ErrTooShort)

\* C30: for a read with as many quality characters as bases and parameters
\* with 0 <= min5Match <= len(adapter), trim5 >= 0, trim3 >= 0, minLen >= 1,
\* trimRead does not panic, and whenever it gets to the slicing step
\* 0 <= trim5 < matchIndex - trim3 <= len(sequence): the slices are in range
\* and the window handed to meanError has at least one character.
C30_SlicesInRange ==
    (tDone /\ Len(tRead.Sequence) = Len(tRead.Quality) /\ ParametersInRange) =>
        /\ ~tResult.panicked
        /\ ReachedSlicing =>
              /\ PrefixHits # {}
              /\ 0 <= tArgs.trim5
              /\ tArgs.trim5 < LeftmostHit - tArgs.trim3
              /\ LeftmostHit - tArgs.trim3 <= Len(tRead.Sequence)
              /\ Len(QualityWindow) >= 1

\* a returned read of one base: one base is cut at the 5' end and the adapter
\* prefix stands at position 2
C30_Witness ==
    /\ tDone
    /\ ParametersInRange
    /\ tArgs.trim5 = 1
    /\ PrefixHits # {}
    /\ LeftmostHit = 2
    /\ tArgs.trim3 = 0
    /\ tResult.read # <<>>
    /\ Len(tResult.read[1].Quality) = 1

----------------------------------------------------------------------------
(* Claims about the quality arithmetic (specification SpecQual) *)

OnlyCode33 == \A k \in 1..Len(qIn) : qIn[k] = "!"

\* the value is the probability p, given in thousandths
MeanIs(m, p) == m.den > 0 /\ m.num = p * m.den

\* C25 as stated: phred33ToError gives 1.0 for code 33 and 0.1 for code 43,
\* and meanError of a string of code 33 only, of any length, is 1.0.
C25_MeanOfCode33AnyLength ==
    qOut.done =>
        /\ \A k \in 1..Len(qIn) :
              /\ qIn[k] = "!" => qOut.errors[k] = 1000
              /\ qIn[k] = "+" => qOut.errors[k] = 100
        /\ OnlyCode33 => MeanIs(qOut.mean, 1000)

\* C25, amended: phred33ToError gives 1.0 for code 33 and 0.1 for code 43,
\* and meanError of a string of code 33 only, of any length from 1 on, is
\* 1.0.
C25_MeanOfCode33 ==
    qOut.done =>
        /\ \A k \in 1..Len(qIn) :
              /\ qIn[k] = "!" => qOut.errors[k] = 1000
              /\ qIn[k] = "+" => qOut.errors[k] = 100
        /\ (OnlyCode33 /\ Len(qIn) >= 1) => MeanIs(qOut.mean, 1000)

\* meanError has returned 1.0 for three characters of code 33
C25_Witness ==
    /\ qOut.done
    /\ Len(qIn) = 3
    /\ OnlyCode33
    /\ MeanIs(qOut.mean, 1000)

====
